---- MODULE Spec2Model ----
(***************************************************************************)
(* The graph synthesis pipeline of "graph generator.py":                   *)
(* InteractiveGraphGenerator.generate_graph and the stages it calls        *)
(* (generators, _apply_properties, _add_weights, _add_community_structure, *)
(* apply_layout, normalize_positions, analyze_graph).                      *)
(*                                                                         *)
(* Numbers.  Floats are modelled in fixed point with floor division:       *)
(*   density            in hundredths (0.55 is 55)                         *)
(*   weights            in tenths     (1.0 is 10)                          *)
(*   random()           as u / RngModulus with u in 0..RngModulus-1        *)
(*   pixel positions    in whole pixels                                    *)
(* Python's random module is modelled as a deterministic generator with a  *)
(* small state (NextRandom); the state it starts from is arbitrary.        *)
(***************************************************************************)
EXTENDS Integers, Sequences, FiniteSets, TLC

VARIABLES
    graph_type_options,   \* Dropdown.options of graph_type_dropdown
    layout_type_options,  \* Dropdown.options of layout_type_dropdown
    seed,                 \* self.seed
    properties,           \* the parameters read from the UI by generate_graph
    graph,                \* self.graph
    weights,              \* self.weights
    communities,          \* self.communities
    pos,                  \* self.pos
    graph_info,           \* self.graph_info
    rng,                  \* state of the random module's shared generator
    pc,                   \* position inside generate_graph
    calls,                \* history: number of generate calls started
    pre,                  \* history: the graph data when the current call started
    stages,               \* history: the stages the current call has run
    assigned,             \* history: the keys of self.weights the current call has set
    first,                \* history: configuration and result of the first completed call
    screen,               \* what draw_graph last drew on self.screen
    events,               \* history: number of UI events handle_events has handled
    clicks,               \* history: left clicks on each of the two checkboxes
    dropdown,             \* selected_index and expanded of direction_dropdown
    slider,               \* value, dragging and handle_pos of node_slider
    event                 \* history: the event the widgets handled last

\* The state of the main loop and of the widgets, which the stages of
\* generate_graph never touch.
loop == <<screen, events, clicks, dropdown, slider, event>>

vars == <<graph_type_options, layout_type_options, seed, properties, graph, weights,
          communities, pos, graph_info, rng, pc, calls, pre, stages, assigned, first,
          screen, events, clicks, dropdown, slider, event>>

(***************************************************************************)
(* Bounds of the model.                                                    *)
(***************************************************************************)
MaxNodes == 6
MaxCalls == 3
RngModulus == 4
MaxCommunities == 3
MaxChanges == 1
MaxSelections == 1
MaxPoints == 3
MaxEvents == 2

(***************************************************************************)
(* Program constants.                                                      *)
(***************************************************************************)
MinNodes == 5
MinCommunities == 2
Width == 1400
Height == 800

\* An optional value is a sequence: <<>> for None, <<x>> for x.
None == <<>>

\* class GraphType
GraphType ==
    {"ERDOS_RENYI", "BARABASI_ALBERT", "WATTS_STROGATZ", "COMPLETE", "STAR", "WHEEL",
     "GRID", "RANDOM_REGULAR", "RANDOM_TREE", "BIPARTITE", "SCALE_FREE", "GEOMETRIC",
     "POWERLAW_CLUSTER"}

\* class LayoutType
LayoutType ==
    {"SPRING", "CIRCULAR", "SHELL", "SPIRAL", "RANDOM", "KAMADA_KAWAI",
     "FRUCHTERMAN_REINGOLD", "SPECTRAL", "PLANAR"}

\* class WeightDistribution
WeightDistribution == {"UNIFORM", "NORMAL", "EXPONENTIAL", "POWERLAW", "LOGNORMAL"}

\* class Directionality
Directionality == {"UNDIRECTED", "DIRECTED", "MIXED"}

\* A selector value that is no member of the enums.
Unregistered == "UNREGISTERED"

Min(a, b) == IF a <= b THEN a ELSE b
Max(a, b) == IF a >= b THEN a ELSE b
SetMin(S) == CHOOSE m \in S : \A x \in S : m <= x
SetMax(S) == CHOOSE m \in S : \A x \in S : m >= x

(***************************************************************************)
(* The random module.  random() returns u / RngModulus, where u is the     *)
(* state the generator moves to.                                           *)
(***************************************************************************)
NextRandom(r) == (r + RngModulus - 1) % RngModulus

\* The value of the k-th call of random() made from state r (k >= 1), which is
\* also the state of the generator after that call.
RECURSIVE RandomAt(_, _)
RandomAt(r, k) == IF k = 0 THEN r ELSE RandomAt(NextRandom(r), k - 1)

\* random.Random(seed): the state of a private generator made from a seed.
SeedState(s) == s % RngModulus

\* The generator a networkx function draws from when it is given seed=s:
\* the shared generator of the random module for None, else a private one.
RandomSource(s, r) == IF s = None THEN r ELSE SeedState(s[1])

(***************************************************************************)
(* Graphs.  An undirected edge is stored once, as <<u, v>> with u < v, a   *)
(* directed edge as <<u, v>>.  weight is the 'weight' attribute of the     *)
(* edges that have one.  multigraph tells a MultiGraph or MultiDiGraph     *)
(* from a Graph or DiGraph; parallel edges are not told apart.             *)
(***************************************************************************)
NoGraph == [is_none |-> TRUE, nodes |-> {}, edges |-> {}, directed |-> FALSE,
            multigraph |-> FALSE, weight |-> <<>>]

MakeGraph(n, e, d) == [is_none |-> FALSE, nodes |-> 0 .. (n - 1), edges |-> e,
                       directed |-> d, multigraph |-> FALSE, weight |-> <<>>]

Canon(u, v) == IF u < v THEN <<u, v>> ELSE <<v, u>>

\* itertools.combinations(range(n), 2) or itertools.permutations(range(n), 2)
Pairs(n, directed) ==
    IF directed
    THEN {e \in (0 .. (n - 1)) \X (0 .. (n - 1)) : e[1] # e[2]}
    ELSE {e \in (0 .. (n - 1)) \X (0 .. (n - 1)) : e[1] < e[2]}

EdgeLess(e, f) == e[1] < f[1] \/ (e[1] = f[1] /\ e[2] < f[2])

\* The place (from 1) of edge e when the edges E are listed as G.edges() lists
\* them: by first node, then by second node.
EdgeRank(e, E) == Cardinality({f \in E : EdgeLess(f, e)}) + 1

\* int(np.sqrt(n))
ISqrt(n) == CHOOSE k \in 0 .. n : k * k <= n /\ (k + 1) * (k + 1) > n

RECURSIVE GCD(_, _)
GCD(a, b) == IF b = 0 THEN a ELSE GCD(b, a % b)

(***************************************************************************)
(* The generators.  Each returns [raised, graph, rng]: whether it raised,  *)
(* the graph it built, and the state it leaves the shared generator in.    *)
(***************************************************************************)
Built(g, r) == [raised |-> FALSE, graph |-> g, rng |-> r]
Raised(r) == [raised |-> TRUE, graph |-> NoGraph, rng |-> r]

IsDirected(p) == p.directionality = "DIRECTED"

\* nx.erdos_renyi_graph(n, p, directed, seed): every pair is an edge when
\* random() < p; p <= 0 and p >= 1 draw nothing.
ErdosRenyiGenerate(p, r) ==
    LET n == p.num_nodes
        all == Pairs(n, IsDirected(p))
        src == RandomSource(p.seed, r)
        drawn == p.density > 0 /\ p.density < 100
        e == IF p.density <= 0 THEN {}
             ELSE IF p.density >= 100 THEN all
             ELSE {x \in all :
                     RandomAt(src, EdgeRank(x, all)) * 100 < p.density * RngModulus}
        after == IF drawn /\ p.seed = None THEN RandomAt(r, Cardinality(all)) ELSE r
    IN  Built(MakeGraph(n, e, IsDirected(p)), after)

\* The degree RandomRegularGenerator asks for: max(2, int(density * n)).
RegularDegree(p) == Max(2, (p.density * p.num_nodes) \div 100)

\* A faulty variant of RegularImpossible that forgets the parity of n * d.
RegularImpossibleIgnoringParity(n, d) == ~(0 <= d /\ d < n)

\* nx.random_regular_graph raises NetworkXError when n * d is odd or when
\* 0 <= d < n does not hold.
RegularImpossible(n, d) == (n * d) % 2 # 0 \/ ~(0 <= d /\ d < n)

\* A d-regular graph on n nodes: the circulant graph whose step s is a unit
\* modulo n picked by one draw.
CirculantEdges(n, d, s) ==
    {Canon(i, (i + s * k) % n) : i \in 0 .. (n - 1), k \in 1 .. (d \div 2)}
    \cup (IF d % 2 = 1 THEN {Canon(i, (i + (n \div 2)) % n) : i \in 0 .. (n - 1)}
          ELSE {})

RandomRegularGenerate(p, r) ==
    LET n == p.num_nodes
        d == RegularDegree(p)
        src == RandomSource(p.seed, r)
        units == {s \in 1 .. (n - 1) : GCD(s, n) = 1}
        k == RandomAt(src, 1) % Cardinality(units)
        s == CHOOSE x \in units : Cardinality({y \in units : y < x}) = k
        after == IF p.seed = None THEN RandomAt(r, 1) ELSE r
    IN  IF RegularImpossible(n, d) THEN Raised(r)
        ELSE Built(MakeGraph(n, CirculantEdges(n, d, s), FALSE), after)

\* int(density * n / 2), at least 1: the m of the Barabasi-Albert and the
\* powerlaw-cluster generators.
AttachmentCount(p) == Max(1, (p.density * p.num_nodes) \div 200)

\* m distinct nodes among 0 .. v-1 (m <= v), picked by the draw d.
AttachTargets(v, m, d) == {(d + j) % v : j \in 0 .. (m - 1)}

\* nx.barabasi_albert_graph(n, m): raises unless 1 <= m < n; a star on
\* 0 .. m, then every further node attaches to m distinct earlier nodes.
BarabasiAlbertGenerate(p, r) ==
    LET n == p.num_nodes
        m == AttachmentCount(p)
        src == RandomSource(p.seed, r)
        e == {<<0, v>> : v \in 1 .. m}
             \cup UNION {{<<u, v>> : u \in AttachTargets(v, m, RandomAt(src, v - m))}
                         : v \in (m + 1) .. (n - 1)}
        after == IF p.seed = None THEN RandomAt(r, n - 1 - m) ELSE r
    IN  IF m < 1 \/ m >= n THEN Raised(r)
        ELSE Built(MakeGraph(n, e, FALSE), after)

\* A faulty variant of LatticeDegree that rounds density * n up.
LatticeDegreeRoundedUp(p) == Max(2, (p.density * p.num_nodes + 99) \div 100)

\* The k of WattsStrogatzGenerator: max(2, int(density * n)).
LatticeDegree(p) == Max(2, (p.density * p.num_nodes) \div 100)

\* The lattice edges in the order the rewiring loop of
\* nx.watts_strogatz_graph visits them: by distance j, then by node u.
LatticeSteps(n, k) ==
    [i \in 1 .. (n * (k \div 2)) |->
       <<(i - 1) % n, (((i - 1) % n) + ((i - 1) \div n) + 1) % n>>]

\* The rewiring loop from step i on: with probability 0.1 (one draw) the
\* edge u-v is replaced by u-w, w picked by one more draw among the nodes
\* that are neither u nor neighbours of u.  [edges, drawn]
RECURSIVE Rewire(_, _, _, _, _, _)
Rewire(E, steps, i, src, drawn, n) ==
    IF i > Len(steps) THEN [edges |-> E, drawn |-> drawn]
    ELSE LET u == steps[i][1]
             v == steps[i][2]
             free == {w \in 0 .. (n - 1) : w # u /\ Canon(u, w) \notin E}
             hit == RandomAt(src, drawn + 1) * 10 < RngModulus
             k == RandomAt(src, drawn + 2) % Cardinality(free)
             w == CHOOSE x \in free : Cardinality({y \in free : y < x}) = k
         IN  IF hit /\ free # {}
             THEN Rewire((E \ {Canon(u, v)}) \cup {Canon(u, w)}, steps, i + 1, src,
                         drawn + 2, n)
             ELSE Rewire(E, steps, i + 1, src, drawn + 1, n)

\* nx.watts_strogatz_graph(n, k, 0.1): raises when k > n, is the complete
\* graph when k = n, else the rewired ring lattice.
WattsStrogatzGenerate(p, r) ==
    LET n == p.num_nodes
        k == LatticeDegree(p)
        src == RandomSource(p.seed, r)
        steps == LatticeSteps(n, k)
        ring == {Canon(steps[i][1], steps[i][2]) : i \in DOMAIN steps}
        out == Rewire(ring, steps, 1, src, 0, n)
        after == IF p.seed = None THEN RandomAt(r, out.drawn) ELSE r
    IN  IF k > n THEN Raised(r)
        ELSE IF k = n THEN Built(MakeGraph(n, Pairs(n, FALSE), FALSE), r)
        ELSE Built(MakeGraph(n, out.edges, FALSE), after)

\* A faulty variant of CompleteGenerate that leaves nodes 0 and 1 apart.
CompleteButOneEdge(p, r) ==
    Built(MakeGraph(p.num_nodes, Pairs(p.num_nodes, FALSE) \ {<<0, 1>>}, FALSE), r)

\* nx.complete_graph(n)
CompleteGenerate(p, r) == Built(MakeGraph(p.num_nodes, Pairs(p.num_nodes, FALSE), FALSE), r)

\* A faulty variant of StarGenerate, nx.star_graph(n): one leaf too many.
StarWithExtraLeaf(p, r) ==
    Built(MakeGraph(p.num_nodes + 1, {<<0, v>> : v \in 1 .. p.num_nodes}, FALSE), r)

\* nx.star_graph(n - 1): hub 0 and the leaves 1 .. n-1.
StarGenerate(p, r) ==
    Built(MakeGraph(p.num_nodes, {<<0, v>> : v \in 1 .. (p.num_nodes - 1)}, FALSE), r)

\* nx.wheel_graph(n): hub 0 joined to the cycle 1, ..., n-1.
WheelGenerate(p, r) ==
    LET n == p.num_nodes
        rim == {Canon(v, IF v = n - 1 THEN 1 ELSE v + 1) : v \in 1 .. (n - 1)}
    IN  Built(MakeGraph(n, {<<0, v>> : v \in 1 .. (n - 1)}
                           \cup {e \in rim : e[1] # e[2]}, FALSE), r)

\* A faulty variant of GridGenerate that keeps all n nodes, in one row.
GridOfRequestedSize(p, r) ==
    Built(MakeGraph(p.num_nodes, {<<u, u + 1>> : u \in 0 .. (p.num_nodes - 2)}, FALSE), r)

\* nx.grid_2d_graph(size, size) with node (i, j) relabelled i * size + j.
GridGenerate(p, r) ==
    LET size == ISqrt(p.num_nodes)
        e == {<<u, u + size>> : u \in 0 .. (size * (size - 1) - 1)}
             \cup {<<u, u + 1>> : u \in {x \in 0 .. (size * size - 1) :
                                          (x % size) + 1 < size}}
    IN  Built(MakeGraph(size * size, e, FALSE), r)

\* The tree of a Pruefer sequence over the nodes S: the least node that
\* is not in the sequence is a leaf of its first element.
RECURSIVE PrueferTree(_, _)
PrueferTree(seq, S) ==
    IF Len(seq) = 0
    THEN {Canon(SetMin(S), SetMax(S))}
    ELSE LET used == {seq[i] : i \in DOMAIN seq}
             leaf == SetMin(S \ used)
         IN  {Canon(leaf, seq[1])} \cup PrueferTree(Tail(seq), S \ {leaf})

\* nx.random_tree(n): the tree of a random Pruefer sequence of length n-2.
RandomTreeGenerate(p, r) ==
    LET n == p.num_nodes
        src == RandomSource(p.seed, r)
        seq == [i \in 1 .. (n - 2) |-> (RandomAt(src, i) * n) \div RngModulus]
        after == IF p.seed = None THEN RandomAt(r, n - 2) ELSE r
    IN  Built(MakeGraph(n, PrueferTree(seq, 0 .. (n - 1)), FALSE), after)

\* nx.complete_bipartite_graph(n1, n2): 0 .. n1-1 against n1 .. n1+n2-1.
BipartiteGenerate(p, r) ==
    LET n1 == p.num_nodes \div 2
        n2 == p.num_nodes - n1
        e == {<<u, v>> : u \in 0 .. (n1 - 1), v \in n1 .. (n1 + n2 - 1)}
    IN  Built(MakeGraph(n1 + n2, e, FALSE), r)

\* graph.to_undirected() of a directed graph without attributes.
Undirected(g) ==
    [g EXCEPT !.edges = {Canon(x[1], x[2]) : x \in g.edges}, !.directed = FALSE]

\* nx.scale_free_graph(n): a MultiDiGraph grown from the cycle 0 -> 1 -> 2
\* -> 0; every new node v gets an edge to or from an earlier node (two
\* draws); made undirected when the properties ask for that.
ScaleFreeGenerate(p, r) ==
    LET n == p.num_nodes
        src == RandomSource(p.seed, r)
        grown(v) == LET w == RandomAt(src, 2 * (v - 2)) % v
                    IN  IF RandomAt(src, 2 * (v - 2) - 1) % 2 = 0
                        THEN <<v, w>> ELSE <<w, v>>
        e == {<<0, 1>>, <<1, 2>>, <<2, 0>>} \cup {grown(v) : v \in 3 .. (n - 1)}
        g == [MakeGraph(n, e, TRUE) EXCEPT !.multigraph = TRUE]
        after == IF p.seed = None THEN RandomAt(r, 2 * (n - 3)) ELSE r
    IN  Built(IF IsDirected(p) THEN g ELSE Undirected(g), after)

\* nx.random_geometric_graph(n, radius): node i at a random point of the
\* unit square (two draws); an edge between nodes at most radius apart.
GeometricGenerate(p, r) ==
    LET n == p.num_nodes
        src == RandomSource(p.seed, r)
        x(v) == RandomAt(src, 2 * v + 1)
        y(v) == RandomAt(src, 2 * v + 2)
        near(u, v) == ((x(u) - x(v)) * (x(u) - x(v)) + (y(u) - y(v)) * (y(u) - y(v)))
                        * 10000 <= p.density * p.density * RngModulus * RngModulus
        after == IF p.seed = None THEN RandomAt(r, 2 * n) ELSE r
    IN  Built(MakeGraph(n, {e \in Pairs(n, FALSE) : near(e[1], e[2])}, FALSE), after)

\* nx.powerlaw_cluster_graph(n, m, 0.1): raises unless 1 <= m <= n; every
\* node from m on attaches to m distinct earlier nodes.
PowerlawClusterGenerate(p, r) ==
    LET n == p.num_nodes
        m == AttachmentCount(p)
        src == RandomSource(p.seed, r)
        e == UNION {{<<u, v>> : u \in AttachTargets(v, m, RandomAt(src, v - m + 1))}
                    : v \in m .. (n - 1)}
        after == IF p.seed = None THEN RandomAt(r, n - m) ELSE r
    IN  IF m < 1 \/ m > n THEN Raised(r)
        ELSE Built(MakeGraph(n, e, FALSE), after)

\* self.generators[graph_type].generate(properties)
GeneratorFor(t, p, r) ==
    CASE t = "ERDOS_RENYI" -> ErdosRenyiGenerate(p, r)
      [] t = "BARABASI_ALBERT" -> BarabasiAlbertGenerate(p, r)
      [] t = "WATTS_STROGATZ" -> WattsStrogatzGenerate(p, r)
      [] t = "COMPLETE" -> CompleteGenerate(p, r)
      [] t = "STAR" -> StarGenerate(p, r)
      [] t = "WHEEL" -> WheelGenerate(p, r)
      [] t = "GRID" -> GridGenerate(p, r)
      [] t = "RANDOM_REGULAR" -> RandomRegularGenerate(p, r)
      [] t = "RANDOM_TREE" -> RandomTreeGenerate(p, r)
      [] t = "BIPARTITE" -> BipartiteGenerate(p, r)
      [] t = "SCALE_FREE" -> ScaleFreeGenerate(p, r)
      [] t = "GEOMETRIC" -> GeometricGenerate(p, r)
      [] t = "POWERLAW_CLUSTER" -> PowerlawClusterGenerate(p, r)

\* A faulty variant of Dispatch whose fallback is the grid generator.
DispatchFallingBackToGrid(p, r) ==
    IF p.graph_type \in GraphType THEN GeneratorFor(p.graph_type, p, r)
    ELSE GeneratorFor("GRID", p, r)

\* The dispatch of generate_graph: a selector that is no key of
\* self.generators falls back to the Erdos-Renyi generator.
Dispatch(p, r) ==
    IF p.graph_type \in GraphType THEN GeneratorFor(p.graph_type, p, r)
    ELSE GeneratorFor("ERDOS_RENYI", p, r)

(***************************************************************************)
(* _add_weights.  One draw per edge, in the order of G.edges().            *)
(***************************************************************************)
\* A faulty variant of Clamp that bounds a weight from below only.
ClampFromBelowOnly(lo, hi, w) == Max(lo, w)

\* max(min_weight, min(max_weight, weight))
Clamp(lo, hi, w) == Max(lo, Min(hi, w))

\* random.uniform(lo, hi) = lo + (hi - lo) * random()
UniformVariate(lo, hi, u) == lo + ((hi - lo) * u) \div RngModulus

\* random.gauss(mean, std) = mean + std * z, z a standard normal value; the
\* draws stand for z = -(RngModulus-1), ..., -1, 1, ..., RngModulus-1.
GaussVariate(mean, std, u) == mean + std * (2 * u - (RngModulus - 1))

\* random.expovariate(1 / scale) = -ln(1 - random()) * scale; -ln(1 - x) is
\* taken as x / (1 - x), which like it is 0 at 0 and unbounded towards 1.
ExpoVariate(scale, u) == (scale * u) \div (RngModulus - u)

\* exp(g) for g in tenths, in tenths, with e taken as 3.
ExpTenths(g) ==
    IF g >= 0 THEN 10 * 3 ^ (g \div 10) ELSE 10 \div 3 ^ ((9 - g) \div 10)

\* random.lognormvariate(mu, sigma) = exp(random.gauss(mu, sigma))
LogNormVariate(mu, sigma, u) == ExpTenths(GaussVariate(mu, sigma, u))

\* random.paretovariate(2) = (1 - random()) ^ (-1/2), in tenths
ParetoVariate(u) == ISqrt((100 * RngModulus) \div (RngModulus - u))

\* The weight one iteration of the loops of _add_weights gives an edge.
DrawWeight(dist, lo, hi, u) ==
    CASE dist = "UNIFORM" -> UniformVariate(lo, hi, u)
      [] dist = "NORMAL" ->
           Clamp(lo, hi, GaussVariate((lo + hi) \div 2, (hi - lo) \div 4, u))
      [] dist = "EXPONENTIAL" -> Min(lo + ExpoVariate((hi - lo) \div 4, u), hi)
      [] dist = "LOGNORMAL" ->
           Clamp(lo, hi, LogNormVariate((lo + hi) \div 2, (hi - lo) \div 4, u))
      [] dist = "POWERLAW" -> Min(lo + ((ParetoVariate(u) - 10) * (hi - lo)) \div 90, hi)

\* The first iteration of a loop of _add_weights raises: 1 / scale is a
\* ZeroDivisionError in the exponential loop when max_weight = min_weight,
\* and graph[u][v]['weight'] = weight is a TypeError for a multigraph,
\* whose graph[u][v] is a read-only view of the parallel edges.
WeightsRaise(g, p) ==
    /\ g.edges # {}
    /\ \/ p.weight_distribution = "EXPONENTIAL" /\ p.max_weight = p.min_weight
       \/ g.multigraph

\* [raised, graph, weights, rng] after _add_weights.
AddWeights(g, p, r) ==
    LET E == g.edges
        w == [e \in E |-> DrawWeight(p.weight_distribution, p.min_weight,
                                      p.max_weight, RandomAt(r, EdgeRank(e, E)))]
    IN  IF WeightsRaise(g, p)
        THEN [raised |-> TRUE, graph |-> g, weights |-> <<>>, rng |-> r]
        ELSE IF p.weight_distribution \in WeightDistribution
        THEN [raised |-> FALSE, graph |-> [g EXCEPT !.weight = w], weights |-> w,
              rng |-> RandomAt(r, Cardinality(E))]
        ELSE [raised |-> FALSE, graph |-> g, weights |-> <<>>, rng |-> r]

(***************************************************************************)
(* _add_community_structure.                                               *)
(***************************************************************************)
Adjacent(g, u, v) == <<u, v>> \in g.edges \/ <<v, u>> \in g.edges

RECURSIVE ReachFrom(_, _)
ReachFrom(g, S) ==
    LET T == S \cup {v \in g.nodes : \E u \in S : Adjacent(g, u, v)}
    IN  IF T = S THEN S ELSE ReachFrom(g, T)

\* Labels 0, 1, ... of the connected components, in the order of their
\* smallest nodes.
ComponentLabels(g) ==
    LET least(v) == CHOOSE m \in ReachFrom(g, {v}) : \A x \in ReachFrom(g, {v}) : m <= x
        leaders == {least(v) : v \in g.nodes}
    IN  [v \in g.nodes |-> Cardinality({m \in leaders : m < least(v)})]

\* The nodes cut in a lower and an upper half of the node ids.
HalfLabels(g) ==
    LET half == Cardinality(g.nodes) \div 2
    IN  [v \in g.nodes |-> IF v < half THEN 0 ELSE 1]

\* community_louvain.best_partition raises TypeError for a directed graph.
PartitionRaises(g) == g.directed

\* The partitions best_partition may return: a label for every node.
Partitions(g) == {ComponentLabels(g), HalfLabels(g)}

\* A faulty variant of Reinforced that halves the weights inside a community.
Weakened(g, w, part) ==
    LET intra == {e \in g.edges : part[e[1]] = part[e[2]]}
        nw(e) == IF e \in DOMAIN g.weight THEN g.weight[e] \div 2 ELSE 20
    IN  [graph |-> [g EXCEPT !.weight =
                       [e \in DOMAIN g.weight \cup intra |->
                          IF e \in intra THEN nw(e) ELSE g.weight[e]]],
         weights |-> [e \in DOMAIN w \cup intra |-> IF e \in intra THEN nw(e) ELSE w[e]]]

\* The loop "Increase weights within communities": an edge inside a community
\* has its weight doubled, or set to 2.0 when it has none; self.weights mirrors it.
Reinforced(g, w, part) ==
    LET intra == {e \in g.edges : part[e[1]] = part[e[2]]}
        nw(e) == IF e \in DOMAIN g.weight THEN g.weight[e] * 2 ELSE 20
    IN  [graph |-> [g EXCEPT !.weight =
                       [e \in DOMAIN g.weight \cup intra |->
                          IF e \in intra THEN nw(e) ELSE g.weight[e]]],
         weights |-> [e \in DOMAIN w \cup intra |-> IF e \in intra THEN nw(e) ELSE w[e]]]

\* A faulty variant of RoundRobin that labels the nodes in blocks.
RoundRobinInBlocks(g, k) == [v \in g.nodes |-> Cardinality({x \in g.nodes : x < v}) \div k]

\* The except branch: node i of G.nodes() gets label i % num_communities.
RoundRobin(g, k) == [v \in g.nodes |-> Cardinality({x \in g.nodes : x < v}) % k]

\* The loop "Increase weights within communities" raises TypeError at the
\* first edge inside a community of a multigraph: graph[u][v] is a read-only
\* view that holds no 'weight'.
ReinforceRaises(g, part) ==
    g.multigraph /\ \E e \in g.edges : part[e[1]] = part[e[2]]

\* [graph, weights, communities] after _add_community_structure, when
\* best_partition returns part.
AddCommunityStructure(g, w, c, p, part) ==
    IF p.num_communities < 2
    THEN [graph |-> g, weights |-> w, communities |-> c]
    ELSE IF PartitionRaises(g) \/ ReinforceRaises(g, part)
    THEN [graph |-> g, weights |-> w, communities |-> RoundRobin(g, p.num_communities)]
    ELSE [graph |-> Reinforced(g, w, part).graph,
          weights |-> Reinforced(g, w, part).weights,
          communities |-> part]

(***************************************************************************)
(* The end of _apply_properties: the graph gets the directionality asked.  *)
(***************************************************************************)
\* G.to_directed(): both directions of every edge, attributes copied.
ToDirected(g) ==
    LET e == g.edges \cup {<<x[2], x[1]>> : x \in g.edges}
    IN  [g EXCEPT !.edges = e, !.directed = TRUE,
                  !.weight = [x \in {y \in e : Canon(y[1], y[2]) \in DOMAIN g.weight} |->
                                g.weight[Canon(x[1], x[2])]]]

\* G.to_undirected(): one edge per connected pair; when both directions
\* exist the attributes of the one listed later (from the larger node) win.
ToUndirected(g) ==
    LET e == {Canon(x[1], x[2]) : x \in g.edges}
        has(x) == x \in DOMAIN g.weight \/ <<x[2], x[1]>> \in DOMAIN g.weight
    IN  [g EXCEPT !.edges = e, !.directed = FALSE,
                  !.weight = [x \in {y \in e : has(y)} |->
                                IF <<x[2], x[1]>> \in DOMAIN g.weight
                                THEN g.weight[<<x[2], x[1]>>] ELSE g.weight[x]]]

\* A faulty variant of EnsureDirectionality that leaves the graph as built.
KeepDirectionality(g, p) == g

EnsureDirectionality(g, p) ==
    IF IsDirected(p) /\ ~g.directed THEN ToDirected(g)
    ELSE IF ~IsDirected(p) /\ g.directed THEN ToUndirected(g)
    ELSE g

(***************************************************************************)
(* apply_layout and normalize_positions.  A raw layout places the nodes of *)
(* the graph in the box [-1, 1] x [-1, 1], here in tenths.                 *)
(***************************************************************************)
\* 10 * (cos, sin) at the eight multiples of 45 degrees.
Compass == << <<10, 0>>, <<7, 7>>, <<0, 10>>, <<-7, 7>>,
              <<-10, 0>>, <<-7, -7>>, <<0, -10>>, <<7, -7>> >>

\* nx.circular_layout: the nodes evenly on the circle, node i of n at the
\* nearest compass point below its angle.
CircularLayout(g) ==
    LET n == Cardinality(g.nodes)
    IN  [v \in g.nodes |-> Compass[(8 * Cardinality({x \in g.nodes : x < v})) \div n + 1]]

\* nx.spring_layout: a placement that depends on numpy's random state; k
\* names the outcome.
SpringLayout(g, k) ==
    [v \in g.nodes |-> <<((7 * v + 3 * k) % 21) - 10, ((5 * v * v + k) % 21) - 10>>]

\* The place (from 0) of node v in the order of G.nodes().
NodeIndex(g, v) == Cardinality({x \in g.nodes : x < v})

Degree(g, v) == Cardinality({u \in g.nodes : u # v /\ Adjacent(g, u, v)})

\* The point that divides -10 .. 10 like i divides 0 .. n-1.
Spread(i, n) == IF n <= 1 THEN 0 ELSE ((20 * i) \div (n - 1)) - 10

\* nx.shell_layout with the default nlist: one shell that holds all nodes.
ShellLayout(g) == CircularLayout(g)

\* nx.spiral_layout: node i further from the centre and further round.
SpiralLayout(g) ==
    LET n == Cardinality(g.nodes)
        at(i) == Compass[(i % 8) + 1]
    IN  [v \in g.nodes |-> <<(at(NodeIndex(g, v))[1] * (NodeIndex(g, v) + 1)) \div n,
                             (at(NodeIndex(g, v))[2] * (NodeIndex(g, v) + 1)) \div n>>]

\* nx.random_layout: a point of the unit square for every node, from
\* numpy's random state; k names the outcome.
RandomLayout(g, k) ==
    [v \in g.nodes |-> <<(7 * v + 3 * k) % 11, (5 * v * v + k) % 11>>]

\* nx.kamada_kawai_layout: a placement fixed by the graph, from the circle
\* it starts at; the better connected a node the nearer the centre.
KamadaKawaiLayout(g) ==
    LET r(v) == 10 - Min(9, Degree(g, v))
    IN  [v \in g.nodes |-> <<(CircularLayout(g)[v][1] * r(v)) \div 10,
                             (CircularLayout(g)[v][2] * r(v)) \div 10>>]

\* nx.spectral_layout: a placement fixed by the graph.
SpectralLayout(g) ==
    LET n == Cardinality(g.nodes)
    IN  [v \in g.nodes |-> <<Spread(NodeIndex(g, v), n),
                             Spread((NodeIndex(g, v) * Degree(g, v)) % n, n)>>]

\* The graph on the nodes V with the undirected edges E, without node v.
WithoutNode(E, v) == {e \in E : e[1] # v /\ e[2] # v}

\* ... and with the edge e contracted into its first node.
Contracted(E, e) ==
    LET to(x) == IF x = e[2] THEN e[1] ELSE x
    IN  {Canon(to(f[1]), to(f[2])) : f \in {h \in E : to(h[1]) # to(h[2])}}

\* Wagner's theorem: a graph is non-planar exactly when K5 or K3,3 is a
\* minor of it.  A minor on fewer nodes is a minor of the graph without one
\* node or with one edge contracted; on all nodes it is a subgraph.
RECURSIVE NonPlanar(_, _)
NonPlanar(V, E) ==
    LET n == Cardinality(V)
        k5 == n = 5 /\ Cardinality(E) = 10
        k33 == n = 6 /\ \E A \in SUBSET V :
                 /\ Cardinality(A) = 3
                 /\ \A a \in A : \A b \in V \ A : Canon(a, b) \in E
    IN  /\ n >= 5
        /\ Cardinality(E) >= 9
        /\ \/ k5
           \/ k33
           \/ \E v \in V : NonPlanar(V \ {v}, WithoutNode(E, v))
           \/ \E e \in E : NonPlanar(V \ {e[2]}, Contracted(E, e))

\* A faulty variant of PlanarityRaises: the planar layout never raises.
PlanarityNeverRaises(g) == FALSE

\* nx.check_planarity looks at the undirected simple graph under G.
PlanarityRaises(g) == NonPlanar(g.nodes, {Canon(e[1], e[2]) : e \in g.edges})

\* nx.planar_layout of a planar graph: the nodes on a grid.
PlanarLayout(g) ==
    LET n == Cardinality(g.nodes)
    IN  [v \in g.nodes |-> <<Spread(NodeIndex(g, v), n),
                             Spread((NodeIndex(g, v) * (n - NodeIndex(g, v))) % n, n)>>]

\* self.pos after the if/elif chain of apply_layout: no branch assigns it
\* when layout_type is none of the LayoutType members; the planar branch
\* falls back to nx.spring_layout when nx.planar_layout raises.
RawLayout(g, old, layout, k) ==
    CASE layout = "SPRING" -> SpringLayout(g, k)
      [] layout = "CIRCULAR" -> CircularLayout(g)
      [] layout = "SHELL" -> ShellLayout(g)
      [] layout = "SPIRAL" -> SpiralLayout(g)
      [] layout = "RANDOM" -> RandomLayout(g, k)
      [] layout = "KAMADA_KAWAI" -> KamadaKawaiLayout(g)
      [] layout = "FRUCHTERMAN_REINGOLD" -> SpringLayout(g, k)
      [] layout = "SPECTRAL" -> SpectralLayout(g)
      [] layout = "PLANAR" ->
           IF PlanarityRaises(g) THEN SpringLayout(g, k) ELSE PlanarLayout(g)
      [] layout \notin LayoutType -> old

\* A faulty variant of NormalizePositions that uses all of the drawing area.
NormalizeToFullArea(ps) ==
    IF DOMAIN ps = {} THEN ps
    ELSE
    LET xs == {ps[v][1] : v \in DOMAIN ps}
        ys == {ps[v][2] : v \in DOMAIN ps}
        min_x == SetMin(xs)
        max_x == SetMax(xs)
        min_y == SetMin(ys)
        max_y == SetMax(ys)
        graph_width == Width - 370
        graph_height == Height - 40
        \* scale_x and scale_y as fractions num / den
        sx == IF max_x > min_x THEN <<graph_width, max_x - min_x>> ELSE <<1, 1>>
        sy == IF max_y > min_y THEN <<graph_height, max_y - min_y>> ELSE <<1, 1>>
        sc == IF sx[1] * sy[2] <= sy[1] * sx[2] THEN sx ELSE sy
        \* (c - center) * min(scale_x, scale_y) * 1.0, center = (lo + hi) / 2
        scaled(c, lo, hi) == ((2 * c - (lo + hi)) * sc[1] * 10) \div (2 * sc[2] * 10)
    IN  [v \in DOMAIN ps |->
           <<20 + scaled(ps[v][1], min_x, max_x) + graph_width \div 2,
             20 + scaled(ps[v][2], min_y, max_y) + graph_height \div 2>>]

\* A faulty variant of NormalizePositions that scales by the larger factor.
NormalizeByLargerScale(ps) ==
    IF DOMAIN ps = {} THEN ps
    ELSE
    LET xs == {ps[v][1] : v \in DOMAIN ps}
        ys == {ps[v][2] : v \in DOMAIN ps}
        min_x == SetMin(xs)
        max_x == SetMax(xs)
        min_y == SetMin(ys)
        max_y == SetMax(ys)
        graph_width == Width - 370
        graph_height == Height - 40
        \* scale_x and scale_y as fractions num / den
        sx == IF max_x > min_x THEN <<graph_width, max_x - min_x>> ELSE <<1, 1>>
        sy == IF max_y > min_y THEN <<graph_height, max_y - min_y>> ELSE <<1, 1>>
        sc == IF sx[1] * sy[2] >= sy[1] * sx[2] THEN sx ELSE sy
        \* (c - center) * max(scale_x, scale_y) * 0.9, center = (lo + hi) / 2
        scaled(c, lo, hi) == ((2 * c - (lo + hi)) * sc[1] * 9) \div (2 * sc[2] * 10)
    IN  [v \in DOMAIN ps |->
           <<20 + scaled(ps[v][1], min_x, max_x) + graph_width \div 2,
             20 + scaled(ps[v][2], min_y, max_y) + graph_height \div 2>>]

\* normalize_positions
NormalizePositions(ps) ==
    IF DOMAIN ps = {} THEN ps
    ELSE
    LET xs == {ps[v][1] : v \in DOMAIN ps}
        ys == {ps[v][2] : v \in DOMAIN ps}
        min_x == SetMin(xs)
        max_x == SetMax(xs)
        min_y == SetMin(ys)
        max_y == SetMax(ys)
        graph_width == Width - 370
        graph_height == Height - 40
        \* scale_x and scale_y as fractions num / den
        sx == IF max_x > min_x THEN <<graph_width, max_x - min_x>> ELSE <<1, 1>>
        sy == IF max_y > min_y THEN <<graph_height, max_y - min_y>> ELSE <<1, 1>>
        sc == IF sx[1] * sy[2] <= sy[1] * sx[2] THEN sx ELSE sy
        \* (c - center) * min(scale_x, scale_y) * 0.9, center = (lo + hi) / 2
        scaled(c, lo, hi) == ((2 * c - (lo + hi)) * sc[1] * 9) \div (2 * sc[2] * 10)
    IN  [v \in DOMAIN ps |->
           <<20 + scaled(ps[v][1], min_x, max_x) + graph_width \div 2,
             20 + scaled(ps[v][2], min_y, max_y) + graph_height \div 2>>]

\* A faulty variant of ApplyLayout that keeps the positions it finds.
KeepLayout(g, old, layout, k) == old

\* apply_layout: the raw layout of the selected algorithm, normalized.
ApplyLayout(g, old, layout, k) == NormalizePositions(RawLayout(g, old, layout, k))

(***************************************************************************)
(* analyze_graph                                                           *)
(***************************************************************************)
NoInfo == [is_empty |-> TRUE]

\* nx.is_weighted(G): the graph has edges and each has a 'weight'.
IsWeighted(g) == g.edges # {} /\ g.edges \subseteq DOMAIN g.weight

RECURSIVE SumOver(_, _)
SumOver(f, D) ==
    IF D = {} THEN 0
    ELSE LET k == CHOOSE x \in D : TRUE IN f[k] + SumOver(f, D \ {k})

Range(f) == {f[k] : k \in DOMAIN f}

\* nx.is_connected of the graph, or of its undirected view.
IsConnected(g) == ReachFrom(g, {SetMin(g.nodes)}) = g.nodes

\* The largest distance from the nodes S, which are those at most d away
\* from a start node.
RECURSIVE Eccentricity(_, _, _)
Eccentricity(g, S, d) ==
    LET T == S \cup {v \in g.nodes : \E u \in S : Adjacent(g, u, v)}
    IN  IF T = S THEN d ELSE Eccentricity(g, T, d + 1)

\* A faulty variant of DiameterEntry that reports a number for every graph.
DiameterOfAnyGraph(g) ==
    [number |-> SetMax({Eccentricity(g, {v}, 0) : v \in g.nodes})]

\* info["diameter"]: nx.diameter for a connected graph, else the text.
DiameterEntry(g) ==
    IF IsConnected(g)
    THEN [number |-> SetMax({Eccentricity(g, {v}, 0) : v \in g.nodes})]
    ELSE [text |-> "Not connected"]

\* nx.average_clustering and nx.transitivity are not implemented for
\* multigraphs: they raise NetworkXNotImplemented.
AnalyzeRaises(g) == g.multigraph

AnalyzeGraph(g, w) ==
    LET base == [is_empty |-> FALSE,
                 number_of_nodes |-> Cardinality(g.nodes),
                 number_of_edges |-> Cardinality(g.edges),
                 is_directed |-> g.directed,
                 is_weighted |-> IsWeighted(g),
                 is_connected |-> IsConnected(g),
                 diameter |-> DiameterEntry(g)]
    IN  IF IsWeighted(g) /\ DOMAIN w # {}
        THEN [has_weight_statistics |-> TRUE,
              min_weight |-> SetMin(Range(w)), max_weight |-> SetMax(Range(w)),
              total_weight |-> SumOver(w, DOMAIN w)] @@ base
        ELSE [has_weight_statistics |-> FALSE] @@ base

(***************************************************************************)
(* The parameters a generate call can read from the UI.  The widgets keep  *)
(* their values between calls; a call reads values that differ from the    *)
(* ones the call before read in at most MaxChanges widgets.                *)
(***************************************************************************)
NodeChoices == MinNodes .. MaxNodes
DensityChoices == {20, 55, 70, 100}
GraphTypeChoices == {"ERDOS_RENYI", "RANDOM_REGULAR", "GRID"}
LayoutTypeChoices == {"SPRING", "CIRCULAR"}
DirectionChoices == {"UNDIRECTED", "DIRECTED"}
WeightChoices == {10, 50, 100}
CommunityCounts == MinCommunities .. MaxCommunities
LayoutOutcomes == {1}

\* The values of the widgets when the constructor makes the first call.  The
\* node slider starts at 30 in the program; the model starts it at its
\* minimum, graphs of 30 nodes being beyond MaxNodes.
InitialProperties ==
    [graph_type |-> "ERDOS_RENYI", layout_type |-> "SPRING",
     weight_distribution |-> "UNIFORM", directionality |-> "UNDIRECTED",
     num_nodes |-> MinNodes, density |-> 20, min_weight |-> 10, max_weight |-> 100,
     num_communities |-> 3, community_structure |-> FALSE, is_weighted |-> FALSE,
     seed |-> None]

Widgets == {"graph_type", "layout_type", "weight_distribution", "directionality",
            "num_nodes", "density", "min_weight", "max_weight", "num_communities",
            "community_structure", "is_weighted"}

\* The values widget w can be set to; gts and lts are the selectable graph
\* and layout types.
Choices(w, gts, lts) ==
    CASE w = "graph_type" -> gts
      [] w = "layout_type" -> lts
      [] w = "weight_distribution" -> WeightDistribution
      [] w = "directionality" -> DirectionChoices
      [] w = "num_nodes" -> NodeChoices
      [] w = "density" -> DensityChoices
      [] w = "min_weight" -> WeightChoices
      [] w = "max_weight" -> WeightChoices
      [] w = "num_communities" -> CommunityCounts
      [] w = "community_structure" -> BOOLEAN
      [] w = "is_weighted" -> BOOLEAN

\* The parameters that differ from p in at most k widgets.
RECURSIVE ChangedUpTo(_, _, _, _)
ChangedUpTo(p, k, gts, lts) ==
    IF k = 0 THEN {p}
    ELSE UNION {{q} \cup UNION {{[q EXCEPT ![w] = v] : v \in Choices(w, gts, lts)} :
                                   w \in Widgets} :
                  q \in ChangedUpTo(p, k - 1, gts, lts)}

\* num_nodes = int(self.node_slider.value), ..., seed = self.seed
Parameters(old, gts, lts, sd) ==
    {[p EXCEPT !.seed = sd] : p \in ChangedUpTo(old, MaxChanges, gts, lts)}

(***************************************************************************)
(* The widgets.  A pygame event is [type, button, pos]; positions are in   *)
(* pixels relative to the top left corner of the directionality dropdown,  *)
(* 60 pixels above the node slider.                                        *)
(***************************************************************************)
\* pygame.Rect(x, y, width, height)
Rect(x, y, w, h) == [x |-> x, y |-> y, width |-> w, height |-> h]

\* Rect.collidepoint: the right and the bottom edge are outside.
CollidePoint(r, q) ==
    /\ r.x <= q[1] /\ q[1] < r.x + r.width
    /\ r.y <= q[2] /\ q[2] < r.y + r.height

\* element_width = panel_width - 20
ElementWidth == 330

\* The events of the model: the mouse at the edges of the two widgets and
\* of the option rows, inside and outside.
EventColumns == {-1, 0, 100, ElementWidth - 1, ElementWidth}
EventRows == {-1, 0, 29, 30, 59, 60, 79, 80, 89, 90, 119, 120}
MouseEvents ==
    [type : {"MOUSEBUTTONDOWN", "MOUSEBUTTONUP", "MOUSEMOTION"},
     button : {1, 3},
     pos : EventColumns \X EventRows]

\* direction_dropdown = Dropdown(element_x, y_pos, element_width, 30,
\* list(Directionality), 0, "Directionality"); indices count from 0.
DropdownRect == Rect(0, 0, ElementWidth, 30)
DropdownOptions == <<"UNDIRECTED", "DIRECTED", "MIXED">>
OptionRect(i) == Rect(DropdownRect.x, DropdownRect.y + (i + 1) * 30, DropdownRect.width, 30)
InitialDropdown == [selected_index |-> 0, expanded |-> FALSE]

\* Dropdown.selected_option
SelectedOption(d) == DropdownOptions[d.selected_index + 1]

\* A faulty variant of DropdownHandle: a click beside the rows of an
\* expanded dropdown leaves it expanded.
DropdownStaysOpen(d, ev) ==
    LET hit == {i \in 0 .. (Len(DropdownOptions) - 1) : CollidePoint(OptionRect(i), ev.pos)}
    IN  IF ev.type = "MOUSEBUTTONDOWN" /\ ev.button = 1
        THEN IF d.expanded
             THEN IF hit # {}
                  THEN [state |-> [selected_index |-> SetMin(hit), expanded |-> FALSE],
                        handled |-> TRUE]
                  ELSE [state |-> d, handled |-> FALSE]
             ELSE IF CollidePoint(DropdownRect, ev.pos)
                  THEN [state |-> [d EXCEPT !.expanded = TRUE], handled |-> TRUE]
                  ELSE [state |-> d, handled |-> FALSE]
        ELSE [state |-> d, handled |-> FALSE]

\* Dropdown.handle_event: the dropdown after the event and the value returned.
DropdownHandle(d, ev) ==
    LET hit == {i \in 0 .. (Len(DropdownOptions) - 1) : CollidePoint(OptionRect(i), ev.pos)}
    IN  IF ev.type = "MOUSEBUTTONDOWN" /\ ev.button = 1
        THEN IF d.expanded
             THEN IF hit # {}
                  THEN [state |-> [selected_index |-> SetMin(hit), expanded |-> FALSE],
                        handled |-> TRUE]
                  ELSE [state |-> [d EXCEPT !.expanded = FALSE], handled |-> FALSE]
             ELSE IF CollidePoint(DropdownRect, ev.pos)
                  THEN [state |-> [d EXCEPT !.expanded = TRUE], handled |-> TRUE]
                  ELSE [state |-> d, handled |-> FALSE]
        ELSE [state |-> d, handled |-> FALSE]

\* node_slider = Slider(element_x, y_pos, element_width, 20, 5, 200,
\* self.num_nodes, "Number of Nodes", 0).  Exact arithmetic: a value is kept
\* as value * width (330ths) and a position as pixels * (max_val - min_val)
\* (195ths of a pixel), so that both conversions are whole.
SliderRect == Rect(0, 60, ElementWidth, 20)
SliderMin == 5
SliderMax == 200
SliderInitial == 30
SliderSpan == SliderMax - SliderMin

\* Slider.value_to_pos: rect.x + (value - min_val) / (max_val - min_val) * rect.width
ValueToPos(v) == SliderRect.x * SliderSpan + (v - SliderMin * SliderRect.width)

\* Slider.pos_to_value: min_val + (pos - rect.x) / rect.width * (max_val -
\* min_val), kept within [min_val, max_val].
PosToValue(q) ==
    Max(SliderMin * SliderRect.width,
        Min(SliderMax * SliderRect.width,
            SliderMin * SliderRect.width + (q - SliderRect.x * SliderSpan)))

\* max(self.rect.x, min(self.rect.right, event.pos[0]))
HandleAt(x) == Max(SliderRect.x, Min(SliderRect.x + SliderRect.width, x)) * SliderSpan

InitialSlider ==
    [value |-> SliderInitial * SliderRect.width, dragging |-> FALSE,
     handle_pos |-> ValueToPos(SliderInitial * SliderRect.width)]

\* A faulty variant of SliderHandle that follows every mouse move.
SliderFollowsEveryMove(sl, ev) ==
    IF ev.type = "MOUSEBUTTONDOWN" /\ ev.button = 1
    THEN IF CollidePoint(SliderRect, ev.pos)
         THEN [state |-> [value |-> PosToValue(HandleAt(ev.pos[1])), dragging |-> TRUE,
                          handle_pos |-> HandleAt(ev.pos[1])],
               handled |-> TRUE]
         ELSE [state |-> sl, handled |-> FALSE]
    ELSE IF ev.type = "MOUSEBUTTONUP" /\ ev.button = 1
    THEN [state |-> [sl EXCEPT !.dragging = FALSE], handled |-> FALSE]
    ELSE IF ev.type = "MOUSEMOTION"
    THEN [state |-> [sl EXCEPT !.value = PosToValue(HandleAt(ev.pos[1])),
                               !.handle_pos = HandleAt(ev.pos[1])],
          handled |-> TRUE]
    ELSE [state |-> sl, handled |-> FALSE]

\* Slider.handle_event: the slider after the event and the value returned.
SliderHandle(sl, ev) ==
    IF ev.type = "MOUSEBUTTONDOWN" /\ ev.button = 1
    THEN IF CollidePoint(SliderRect, ev.pos)
         THEN [state |-> [value |-> PosToValue(HandleAt(ev.pos[1])), dragging |-> TRUE,
                          handle_pos |-> HandleAt(ev.pos[1])],
               handled |-> TRUE]
         ELSE [state |-> sl, handled |-> FALSE]
    ELSE IF ev.type = "MOUSEBUTTONUP" /\ ev.button = 1
    THEN [state |-> [sl EXCEPT !.dragging = FALSE], handled |-> FALSE]
    ELSE IF ev.type = "MOUSEMOTION" /\ sl.dragging
    THEN [state |-> [sl EXCEPT !.value = PosToValue(HandleAt(ev.pos[1])),
                               !.handle_pos = HandleAt(ev.pos[1])],
          handled |-> TRUE]
    ELSE [state |-> sl, handled |-> FALSE]

\* The widgets whose click leaves them as they were: Checkbox.handle_event
\* flips checked, and the action (toggle_weighted, toggle_community) flips
\* it back.
ToggledTwice == {"community_structure", "is_weighted"}

\* Checkbox.handle_event, "self.checked = not self.checked", and the
\* statement of toggle_weighted and of toggle_community, on checkbox w.
Flipped(p, w) == [p EXCEPT ![w] = ~p[w]]

\* A left click on checkbox w: handle_event flips checked and then calls
\* the action, which flips it again.
CheckboxClick(p, w) == Flipped(Flipped(p, w), w)

\* self.ui_elements, in the order handle_events visits them.
UiElements ==
    <<"graph_type", "layout_type", "weight_distribution", "directionality",
      "num_nodes", "density", "attach", "neighbor", "rewiring", "degree",
      "min_weight", "max_weight", "num_communities", "is_weighted",
      "community_structure", "show_weights", "show_labels", "show_communities",
      "generate_button", "export_button", "export_info_button", "analyze_button">>

Buttons == {"generate_button", "export_button", "export_info_button", "analyze_button"}

\* handle_events, "if ui_handled and not isinstance(element, Button)": after
\* the inner loop, element is the last member of self.ui_elements.
RegeneratesAfter(ui_handled) ==
    ui_handled /\ UiElements[Len(UiElements)] \notin Buttons

(***************************************************************************)
(* The state machine.                                                      *)
(***************************************************************************)
\* A faulty variant of NextStage that partitions before it weights.
NextStagePartitionFirst(s) ==
    CASE s = "generate" -> "community"
      [] s = "community" -> "weights"
      [] s = "weights" -> "direction"
      [] s = "direction" -> "layout"
      [] s = "layout" -> "analyze"
      [] s = "analyze" -> "ready"

\* A faulty variant of NextStage: the call returns without an outcome.
NextStageBackToIdle(s) ==
    CASE s = "generate" -> "weights"
      [] s = "weights" -> "community"
      [] s = "community" -> "direction"
      [] s = "direction" -> "layout"
      [] s = "layout" -> "analyze"
      [] s = "analyze" -> "idle"

\* The order of the statements of generate_graph and _apply_properties: the
\* position that follows position s.
NextStage(s) ==
    CASE s = "generate" -> "weights"
      [] s = "weights" -> "community"
      [] s = "community" -> "direction"
      [] s = "direction" -> "layout"
      [] s = "layout" -> "analyze"
      [] s = "analyze" -> "ready"

Snapshot == [graph |-> graph, weights |-> weights, communities |-> communities,
             pos |-> pos, graph_info |-> graph_info, rng |-> rng]

NoFirst == [set |-> FALSE]

InitData ==
    /\ properties = InitialProperties
    /\ graph = NoGraph
    /\ pos = None
    /\ weights = <<>>
    /\ communities = <<>>
    /\ graph_info = NoInfo
    /\ rng \in 0 .. (RngModulus - 1)
    /\ pc = "idle"
    /\ calls = 0
    /\ pre = Snapshot
    /\ stages = <<>>
    /\ assigned = {}
    /\ first = NoFirst
    /\ screen = None
    /\ events = 0
    /\ clicks = [w \in ToggledTwice |-> 0]
    /\ dropdown = InitialDropdown
    /\ slider = InitialSlider
    /\ event = None

\* The program: the dropdowns list the enum members and self.seed is None.
Init ==
    /\ graph_type_options = GraphType
    /\ layout_type_options = LayoutType
    /\ seed = None
    /\ InitData

SeedChoices == {<<1>>, <<2>>}

\* The class driven by a caller that gives a dropdown one more option, or
\* sets self.seed.
InitOpen ==
    /\ \/ /\ graph_type_options = GraphType \cup {Unregistered}
          /\ layout_type_options = LayoutType
          /\ seed = None
       \/ /\ graph_type_options = GraphType
          /\ layout_type_options = LayoutType \cup {Unregistered}
          /\ seed = None
       \/ /\ graph_type_options = GraphType
          /\ layout_type_options = LayoutType
          /\ seed \in SeedChoices
    /\ InitData

\* generate_graph, "Update parameters from UI" and "Create properties object"
ReadParameters ==
    /\ pc \in {"idle", "ready"}
    /\ calls < MaxCalls
    /\ properties' \in Parameters(properties,
                                  graph_type_options \cap (GraphTypeChoices \cup {Unregistered}),
                                  layout_type_options \cap (LayoutTypeChoices \cup {Unregistered}),
                                  seed)
    /\ pc' = "generate"
    /\ calls' = calls + 1
    /\ pre' = Snapshot
    /\ stages' = <<>>
    /\ assigned' = {}
    /\ UNCHANGED <<loop, graph_type_options, layout_type_options, seed, graph, weights,
                   communities, pos, graph_info, rng, first>>

\* The parameters read when the dropdowns, the node and probability sliders
\* and the checkboxes may all have been set since the call before.
Selections(old, gts, lts) ==
    {[old EXCEPT !.graph_type = t, !.layout_type = l, !.num_nodes = n,
                 !.density = d, !.directionality = dir,
                 !.community_structure = c, !.is_weighted = w] :
       t \in gts, l \in lts, n \in NodeChoices, d \in DensityChoices,
       dir \in DirectionChoices, c \in BOOLEAN, w \in BOOLEAN}

\* generate_graph, "Update parameters from UI" and "Create properties object":
\* the call __init__ makes reads the initial values, a later call any
\* selection.
ReadSelection ==
    /\ pc \in {"idle", "ready"}
    /\ calls < 1 + MaxSelections
    /\ properties' \in IF calls = 0 THEN {[InitialProperties EXCEPT !.seed = seed]}
                       ELSE Selections(properties, graph_type_options,
                                       layout_type_options)
    /\ pc' = "generate"
    /\ calls' = calls + 1
    /\ pre' = Snapshot
    /\ stages' = <<>>
    /\ assigned' = {}
    /\ UNCHANGED <<loop, graph_type_options, layout_type_options, seed, graph, weights,
                   communities, pos, graph_info, rng, first>>

\* generate_graph, "Generate the graph based on selected type"
GenerateStage ==
    /\ pc = "generate"
    /\ LET out == Dispatch(properties, rng)
       IN  /\ graph' = IF out.raised THEN graph ELSE out.graph
           /\ rng' = out.rng
           /\ pc' = IF out.raised THEN "failed" ELSE NextStage(pc)
    /\ stages' = Append(stages, "generate")
    /\ UNCHANGED <<loop, graph_type_options, layout_type_options, seed, properties, weights,
                   communities, pos, graph_info, calls, pre, assigned, first>>

\* _apply_properties, "Add weights if requested"
WeightStage ==
    /\ pc = "weights"
    /\ IF properties.is_weighted
       THEN LET out == AddWeights(graph, properties, rng)
            IN  /\ graph' = out.graph
                /\ weights' = out.weights
                /\ rng' = out.rng
                /\ pc' = IF out.raised THEN "failed" ELSE NextStage(pc)
                /\ stages' = Append(stages, "weight")
                /\ assigned' = DOMAIN out.weights
       ELSE /\ pc' = NextStage(pc)
            /\ UNCHANGED <<graph, weights, rng, stages, assigned>>
    /\ UNCHANGED <<loop, graph_type_options, layout_type_options, seed, properties,
                   communities, pos, graph_info, calls, pre, first>>

\* _apply_properties, "Add community structure if requested"
CommunityStage ==
    /\ pc = "community"
    /\ IF properties.community_structure
       THEN \E part \in Partitions(graph) :
              LET out == AddCommunityStructure(graph, weights, communities,
                                               properties, part)
              IN  /\ graph' = out.graph
                  /\ weights' = out.weights
                  /\ communities' = out.communities
                  /\ stages' = Append(stages, "partition")
                  /\ assigned' = assigned \cup
                        {e \in DOMAIN out.weights :
                           e \notin DOMAIN weights \/ out.weights[e] # weights[e]}
       ELSE UNCHANGED <<graph, weights, communities, stages, assigned>>
    /\ pc' = NextStage(pc)
    /\ UNCHANGED <<loop, graph_type_options, layout_type_options, seed, properties,
                   pos, graph_info, rng, calls, pre, first>>

\* _apply_properties, "Ensure the graph has the correct directionality"
DirectionStage ==
    /\ pc = "direction"
    /\ graph' = EnsureDirectionality(graph, properties)
    /\ pc' = NextStage(pc)
    /\ UNCHANGED <<loop, graph_type_options, layout_type_options, seed, properties, weights,
                   communities, pos, graph_info, rng, calls, pre, stages, assigned,
                   first>>

\* generate_graph, "Apply the selected layout"
LayoutStage ==
    /\ pc = "layout"
    /\ \E k \in LayoutOutcomes :
         pos' = ApplyLayout(graph, pos, properties.layout_type, k)
    /\ pc' = NextStage(pc)
    /\ stages' = Append(stages, "layout")
    /\ UNCHANGED <<loop, graph_type_options, layout_type_options, seed, properties, graph,
                   weights, communities, graph_info, rng, calls, pre, assigned, first>>

\* generate_graph, "Analyze the graph", and the return to the caller
AnalyzeStage ==
    /\ pc = "analyze"
    /\ graph_info' = IF AnalyzeRaises(graph) THEN graph_info
                     ELSE AnalyzeGraph(graph, weights)
    /\ pc' = IF AnalyzeRaises(graph) THEN "failed" ELSE NextStage(pc)
    /\ stages' = Append(stages, "analyze")
    /\ first' = IF first.set \/ AnalyzeRaises(graph) THEN first
                ELSE [set |-> TRUE, properties |-> properties, edges |-> graph.edges,
                      weights |-> weights]
    /\ UNCHANGED <<loop, graph_type_options, layout_type_options, seed, properties, graph,
                   weights, communities, pos, rng, calls, pre, assigned>>

Next ==
    \/ ReadParameters
    \/ GenerateStage
    \/ WeightStage
    \/ CommunityStage
    \/ DirectionStage
    \/ LayoutStage
    \/ AnalyzeStage

Spec == Init /\ [][Next]_vars

SpecOpen == InitOpen /\ [][Next]_vars

\* The statements of a generate call run one after the other on the
\* calling thread: a call that has started keeps taking its next step.
Pipeline ==
    \/ GenerateStage
    \/ WeightStage
    \/ CommunityStage
    \/ DirectionStage
    \/ LayoutStage
    \/ AnalyzeStage

(***************************************************************************)
(* The main loop, run: handle_events passes every event to every widget,   *)
(* the generate button's action is generate_graph, and draw_graph follows  *)
(* handle_events when there is a graph with positions.                     *)
(***************************************************************************)
\* handle_events for one event that a slider, a dropdown or a checkbox
\* handles: the widget takes its new value, and generate_graph starts when
\* the test after the inner loop says so.  An event comes between two calls.
HandleEvent ==
    /\ pc = "ready"
    /\ events < MaxEvents
    /\ RegeneratesAfter(TRUE) => calls < MaxCalls
    /\ \E w \in Widgets :
         /\ properties' \in
              IF w \in ToggledTwice THEN {CheckboxClick(properties, w)}
              ELSE {[properties EXCEPT ![w] = v] :
                      v \in Choices(w, graph_type_options \cap GraphTypeChoices,
                                    layout_type_options \cap LayoutTypeChoices)}
         /\ clicks' = IF w \in ToggledTwice THEN [clicks EXCEPT ![w] = @ + 1] ELSE clicks
    /\ events' = events + 1
    /\ IF RegeneratesAfter(TRUE)
       THEN /\ pc' = "generate"
            /\ calls' = calls + 1
            /\ pre' = Snapshot
            /\ stages' = <<>>
            /\ assigned' = {}
       ELSE UNCHANGED <<pc, calls, pre, stages, assigned>>
    /\ UNCHANGED <<graph_type_options, layout_type_options, seed, graph, weights,
                   communities, pos, graph_info, rng, first, screen, dropdown,
                   slider, event>>

\* Button.handle_event of generate_button, and the call __init__ makes:
\* generate_graph starts with the values the widgets hold.
GenerateCall ==
    /\ pc \in {"idle", "ready"}
    /\ calls < MaxCalls
    /\ properties' = [properties EXCEPT !.seed = seed]
    /\ pc' = "generate"
    /\ calls' = calls + 1
    /\ pre' = Snapshot
    /\ stages' = <<>>
    /\ assigned' = {}
    /\ UNCHANGED <<loop, graph_type_options, layout_type_options, seed, graph, weights,
                   communities, pos, graph_info, rng, first>>

\* A faulty variant of BetweenCalls: the loop runs inside a call as well.
AtAnyPosition == pc # "idle"

\* The loop body runs after __init__ has returned and, generate_graph being
\* called from inside handle_events, never between two statements of a call.
BetweenCalls == pc = "ready"

\* run, "if self.graph and self.pos: self.draw_graph()"
DrawGraph ==
    /\ BetweenCalls
    /\ graph # NoGraph
    /\ graph.nodes # {}
    /\ pos # None
    /\ screen' = <<[graph |-> graph, pos |-> pos, drawn_at |-> pc]>>
    /\ UNCHANGED <<graph_type_options, layout_type_options, seed, properties, graph,
                   weights, communities, pos, graph_info, rng, pc, calls, pre,
                   stages, assigned, first, events, clicks, dropdown, slider,
                   event>>

NextLoop ==
    \/ HandleEvent
    \/ GenerateCall
    \/ GenerateStage
    \/ WeightStage
    \/ CommunityStage
    \/ DirectionStage
    \/ LayoutStage
    \/ AnalyzeStage
    \/ DrawGraph

SpecLoop == Init /\ [][NextLoop]_vars /\ WF_vars(Pipeline)

\* The program with the random generator starting in one given state.
InitFixed == Init /\ rng = 0

\* The main loop from that start.
SpecFair == InitFixed /\ [][NextLoop]_vars /\ WF_vars(Pipeline)

(***************************************************************************)
(* The widgets on their own: handle_events passes each event to the        *)
(* dropdown and to the slider, one after the other.                        *)
(***************************************************************************)
\* handle_events, "for element in self.ui_elements: element.handle_event(event)"
WidgetEvent ==
    \E ev \in MouseEvents :
      /\ dropdown' = DropdownHandle(dropdown, ev).state
      /\ slider' = SliderHandle(slider, ev).state
      /\ event' = <<ev>>
      /\ UNCHANGED <<graph_type_options, layout_type_options, seed, properties, graph,
                     weights, communities, pos, graph_info, rng, pc, calls, pre,
                     stages, assigned, first, screen, events, clicks>>

SpecWidgets == InitFixed /\ [][WidgetEvent]_vars

\* The pipeline over every graph model and every layout algorithm.
NextModels ==
    \/ ReadSelection
    \/ GenerateStage
    \/ WeightStage
    \/ CommunityStage
    \/ DirectionStage
    \/ LayoutStage
    \/ AnalyzeStage

SpecModels == Init /\ [][NextModels]_vars

(***************************************************************************)
(* normalize_positions on its own: self.pos holds any raw layout of up to  *)
(* MaxPoints nodes with coordinates from RawCoordinates, which include     *)
(* layouts of zero extent in one axis or in both and extents on both sides *)
(* of the drawing area's size.                                             *)
(***************************************************************************)
RawCoordinates == {-1000, -10, 0, 10, 1000}

RawLayouts ==
    UNION {[0 .. (n - 1) -> RawCoordinates \X RawCoordinates] : n \in 1 .. MaxPoints}

InitNormalize ==
    /\ graph_type_options = GraphType
    /\ layout_type_options = LayoutType
    /\ seed = None
    /\ properties = InitialProperties
    /\ graph = NoGraph
    /\ pos \in RawLayouts
    /\ weights = <<>>
    /\ communities = <<>>
    /\ graph_info = NoInfo
    /\ rng = 0
    /\ pc = "normalize"
    /\ calls = 0
    /\ pre = Snapshot
    /\ stages = <<>>
    /\ assigned = {}
    /\ first = NoFirst
    /\ screen = None
    /\ events = 0
    /\ clicks = [w \in ToggledTwice |-> 0]
    /\ dropdown = InitialDropdown
    /\ slider = InitialSlider
    /\ event = None

\* normalize_positions()
NormalizeCall ==
    /\ pc = "normalize"
    /\ pos' = NormalizePositions(pos)
    /\ stages' = Append(stages, "normalize")
    /\ pc' = "normalized"
    /\ UNCHANGED <<loop, graph_type_options, layout_type_options, seed, properties,
                   graph, weights, communities, graph_info, rng, calls, pre,
                   assigned, first>>

SpecNormalize == InitNormalize /\ [][NormalizeCall]_vars

(***************************************************************************)
(* The claims.                                                             *)
(***************************************************************************)
\* The call in progress has got past the generation of its graph.
Generated == pc \in {"weights", "community", "direction", "layout", "analyze", "ready"}

\* The graph data is what it was when the call in progress started.
DataAsBefore ==
    /\ graph = pre.graph
    /\ weights = pre.weights
    /\ communities = pre.communities
    /\ pos = pre.pos
    /\ graph_info = pre.graph_info

\* C1: a generate call that fails, at whatever stage, leaves the graph, the
\* edge weights, the community assignment, the positions and the metrics
\* exactly as they were before the call.
C1_NoPartialResult == pc = "failed" => DataAsBefore

\* C2: after a generate call the community assignment holds only labels of
\* that call: it is empty when the call had community structure disabled,
\* and every node it labels is a node of the current graph.
C2_FreshCommunities ==
    pc = "ready" =>
        /\ ~properties.community_structure => communities = <<>>
        /\ DOMAIN communities \subseteq graph.nodes

\* C3: after a generate call every key of the weight map is an edge of the
\* current graph and every value was assigned by that call.
C3_FreshWeights ==
    pc = "ready" =>
        /\ DOMAIN weights \subseteq graph.edges
        /\ DOMAIN weights \subseteq assigned

IsPrefix(s, t) == Len(s) <= Len(t) /\ SubSeq(t, 1, Len(s)) = s

\* The stages a call with parameters p is to run, in order.
ExpectedStages(p) ==
    <<"generate">> \o (IF p.is_weighted THEN <<"weight">> ELSE <<>>)
                   \o (IF p.community_structure THEN <<"partition">> ELSE <<>>)
                   \o <<"layout", "analyze">>

\* C4: the stages of a call run in the order generate, weight (if enabled),
\* partition (if enabled), layout, analyze, one after the other; a call that
\* completes has run them all, and passing a disabled optional stage changes
\* nothing of the graph data.
C4_StageOrder ==
    /\ [](pc # "idle" => IsPrefix(stages, ExpectedStages(properties)))
    /\ [](pc = "ready" => stages = ExpectedStages(properties))
    /\ [][/\ (pc = "weights" /\ ~properties.is_weighted) => Snapshot' = Snapshot
          /\ (pc = "community" /\ ~properties.community_structure) =>
                Snapshot' = Snapshot]_vars

C4_Witness ==
    /\ pc = "ready"
    /\ calls = MaxCalls
    /\ properties.is_weighted
    /\ properties.community_structure
    /\ Len(stages) = 5

\* round(x) for x in hundredths: to the nearest integer, halves to the even one.
Round(h) ==
    LET q == h \div 100
        r == h % 100
    IN  IF r < 50 THEN q ELSE IF r > 50 THEN q + 1 ELSE IF q % 2 = 0 THEN q ELSE q + 1

\* C5: a random-regular call with d = max(2, round(density * N)) fails
\* whenever d * N is odd or d >= N, and then produces no graph.
C5_RoundedDegree ==
    LET n == properties.num_nodes
        d == Max(2, Round(properties.density * n))
    IN  (/\ properties.graph_type = "RANDOM_REGULAR"
         /\ pc # "generate"
         /\ ((d * n) % 2 = 1 \/ d >= n))
        => (pc = "failed" /\ stages = <<"generate">> /\ DataAsBefore)

\* C5 as amended: a random-regular call with d = max(2, floor(density * N))
\* fails in its generation stage whenever d * N is odd or d >= N, and then the
\* graph, weights, communities, positions and metrics stay as they were.
C5_TruncatedDegree ==
    LET n == properties.num_nodes
        d == Max(2, (properties.density * n) \div 100)
    IN  (/\ properties.graph_type = "RANDOM_REGULAR"
         /\ pc # "generate"
         /\ ((d * n) % 2 = 1 \/ d >= n))
        => (pc = "failed" /\ stages = <<"generate">> /\ DataAsBefore)

C5_Witness ==
    /\ properties.graph_type = "RANDOM_REGULAR"
    /\ properties.density = 70
    /\ pc = "failed"
    /\ ~pre.graph.is_none

\* C6: for every distribution and every range with min < max, every weight
\* the weight stage gives an edge lies in [min, max].
C6_WeightsInRange ==
    (/\ pc = "community"
     /\ properties.is_weighted
     /\ properties.min_weight < properties.max_weight)
    => /\ DOMAIN weights = graph.edges
       /\ DOMAIN graph.weight = graph.edges
       /\ \A e \in graph.edges :
            /\ properties.min_weight <= weights[e]
            /\ weights[e] <= properties.max_weight
            /\ graph.weight[e] = weights[e]

C6_Witness ==
    /\ pc = "community"
    /\ properties.is_weighted
    /\ properties.min_weight < properties.max_weight
    /\ properties.weight_distribution = "LOGNORMAL"
    /\ \E e \in DOMAIN weights : weights[e] = properties.max_weight

\* C7: a weighted generate call whose weight range has min >= max is
\* rejected before any computation: it generates no graph and draws no weight.
C7_RangeRejected ==
    (properties.is_weighted /\ properties.min_weight >= properties.max_weight)
    => ~Generated
\* C8: a generate call whose model selector is none of the thirteen graph
\* models is rejected before any computation: it generates no graph.
C8_SelectorRejected == properties.graph_type \notin GraphType => ~Generated

\* C8 as amended: a generate call whose model selector is none of the
\* thirteen graph models does not fail in the generation stage; it generates
\* the graph the Erdos-Renyi model gives for the same parameters.
C8_FallsBackToErdosRenyi ==
    (properties.graph_type \notin GraphType /\ pc # "generate")
    => /\ pc = "failed" => stages # <<"generate">>
       /\ pc = "weights" =>
            LET n == properties.num_nodes
                all == Pairs(n, properties.directionality = "DIRECTED")
                src == IF seed = None THEN pre.rng ELSE seed[1] % RngModulus
            IN  /\ graph.nodes = 0 .. (n - 1)
                /\ graph.directed = (properties.directionality = "DIRECTED")
                /\ graph.edges =
                     IF properties.density >= 100 THEN all
                     ELSE {e \in all : RandomAt(src, EdgeRank(e, all)) * 100
                                         < properties.density * RngModulus}

C8_Witness ==
    /\ properties.graph_type \notin GraphType
    /\ pc = "ready"
    /\ graph.edges # {}
    /\ graph.edges # Pairs(properties.num_nodes, FALSE)

\* C9: a generate call whose layout selector is none of the nine layout
\* algorithms never completes with positions computed in an earlier call.
C9_NoStalePositions ==
    ~(pc = "ready" /\ properties.layout_type \notin LayoutType /\ pos # None)

\* C10: two generate calls with the same seed (not None) and the same
\* configuration produce the same edge set and the same edge weights.
C10_Reproducible ==
    (/\ pc = "ready"
     /\ first.set
     /\ properties.seed # None
     /\ properties.is_weighted
     /\ ~properties.community_structure
     /\ properties = first.properties)
    => /\ graph.edges = first.edges
       /\ weights = first.weights
\* C11: when best_partition fails (it raises for the directed graph a
\* generator built), the generate call does not fail in the partition stage;
\* right after that stage, and when the call completes, every node i of the
\* graph has the label i mod num_communities.
C11_RoundRobinOnFailure ==
    /\ pc = "failed" => stages[Len(stages)] # "partition"
    /\ (pc = "direction" /\ properties.community_structure /\ graph.directed)
       => communities = [v \in graph.nodes |-> v % properties.num_communities]
    /\ (/\ pc = "ready"
        /\ properties.community_structure
        /\ properties.directionality = "DIRECTED"
        /\ properties.graph_type \notin GraphType \ {"ERDOS_RENYI"})
       => communities = [v \in graph.nodes |-> v % properties.num_communities]

C11_Witness ==
    /\ pc = "ready"
    /\ properties.community_structure
    /\ properties.graph_type = "ERDOS_RENYI"
    /\ graph.directed
    /\ properties.num_communities = 2
    /\ \E v \in graph.nodes : v >= properties.num_communities /\ communities[v] = 0
\* A graph model and node count whose graphs are known to be non-planar:
\* the complete graphs from K5 on and the complete bipartite graphs that
\* hold K3,3.
KnownNonPlanar(p) ==
    \/ p.graph_type = "COMPLETE" /\ p.num_nodes >= 5
    \/ p.graph_type = "BIPARTITE" /\ p.num_nodes >= 6

\* C12: with the planar layout selected and a non-planar graph, the
\* generate call does not fail in the layout stage; it goes on with the
\* normalized spring layout, which places every node of the graph.
C12_PlanarFallsBackToSpring ==
    /\ pc = "failed" => stages[Len(stages)] # "layout"
    /\ (/\ pc \in {"analyze", "ready"}
        /\ properties.layout_type = "PLANAR"
        /\ KnownNonPlanar(properties))
       => /\ DOMAIN pos = graph.nodes
          /\ \E k \in LayoutOutcomes : pos = NormalizePositions(SpringLayout(graph, k))

C12_Witness ==
    /\ pc = "ready"
    /\ properties.layout_type = "PLANAR"
    /\ properties.graph_type = "BIPARTITE"
    /\ properties.num_nodes = 6
    /\ DOMAIN pos = 0 .. 5
C14_InsideViewport ==
    pc = "normalized"
    => \A v \in DOMAIN pos :
         /\ 0 <= pos[v][1] /\ pos[v][1] <= Width
         /\ 0 <= pos[v][2] /\ pos[v][2] <= Height

\* The raw layout (kept in the snapshot) had one x for several different y.
C14_Witness ==
    /\ pc = "normalized"
    /\ Cardinality(DOMAIN pre.pos) = MaxPoints
    /\ \A u, v \in DOMAIN pre.pos : pre.pos[u][1] = pre.pos[v][1]
    /\ \E u, v \in DOMAIN pre.pos : pre.pos[u][2] - pre.pos[v][2] > Height
    /\ \E u, v \in DOMAIN pos : pos[u][2] # pos[v][2]

\* Some nodes of g, not all, have no edge to the others.
Separated(g) ==
    \E S \in SUBSET g.nodes :
      /\ S # {} /\ S # g.nodes
      /\ \A e \in g.edges : (e[1] \in S) <=> (e[2] \in S)

\* C15: in the analysis of a completed call, the diameter is a number
\* exactly when is_connected is true, which is exactly when the graph is in
\* one piece; for a graph in several pieces is_connected is false and the
\* diameter is the text "Not connected".
C15_DiameterIffConnected ==
    pc = "ready"
    => /\ graph_info.is_connected <=> ~Separated(graph)
       /\ graph_info.is_connected <=> DOMAIN graph_info.diameter = {"number"}
       /\ graph_info.is_connected
          => graph_info.diameter.number \in 1 .. (Cardinality(graph.nodes) - 1)
       /\ ~graph_info.is_connected
          => graph_info.diameter = [text |-> "Not connected"]

C15_Witness ==
    /\ pc = "ready"
    /\ Separated(graph)
    /\ graph.edges # {}
    /\ ~graph_info.is_connected
    /\ graph_info.diameter = [text |-> "Not connected"]

\* C16: a generate call that has started ends, as a completed call (ready) or
\* as a raised exception (failed); once the first call has started the
\* pipeline is never idle again, and an exception is final.
C16_CallEnds ==
    /\ (pc \in {"generate", "weights", "community", "direction", "layout", "analyze"})
         ~> (pc \in {"ready", "failed"})
    /\ [][pc' = "idle" => pc = "idle"]_vars
    /\ [][pc = "failed" => pc' = "failed"]_vars

C16_Witness ==
    /\ pc = "failed"
    /\ calls = MaxCalls
    /\ events > 0
    /\ screen # None

\* C17: while a generate call is between its start and its end no UI event
\* is handled (no widget changes), no other call starts and nothing is
\* drawn; every frame drawn shows the graph and the positions a completed
\* call left, each node of the graph at a position.
C17_CallIsAtomic ==
    /\ [][(pc \in {"generate", "weights", "community", "direction", "layout", "analyze"})
          => /\ events' = events
             /\ properties' = properties
             /\ calls' = calls
             /\ screen' = screen]_vars
    /\ [](screen # None
          => /\ screen[1].drawn_at = "ready"
             /\ DOMAIN screen[1].pos = screen[1].graph.nodes)

\* A call is under way, has built its graph, and the frame on the screen is
\* still the one drawn after the call before.
C17_Witness ==
    /\ pc = "layout"
    /\ calls > 1
    /\ events > 0
    /\ screen # None
    /\ screen[1].graph = pre.graph
    /\ screen[1].graph # graph


\* The call in progress, or just ended, has built its graph.
GraphBuilt == Generated \/ (pc = "failed" /\ Len(stages) > 1)

\* The number of nodes asked for, or for the grid the largest perfect square
\* that is at most that number.
EffectiveNodes(p) ==
    IF p.graph_type = "GRID"
    THEN CHOOSE s \in {k * k : k \in 0 .. p.num_nodes} :
           /\ s <= p.num_nodes
           /\ \A k \in 0 .. p.num_nodes : k * k <= p.num_nodes => k * k <= s
    ELSE p.num_nodes

\* C18: whatever the model and the number of nodes, the nodes of a graph a
\* call has built are exactly 0 .. N_effective - 1, through every later
\* stage of the call.
C18_NodeIds ==
    GraphBuilt => graph.nodes = 0 .. (EffectiveNodes(properties) - 1)

C18_Witness ==
    /\ pc = "ready"
    /\ properties.graph_type = "GRID"
    /\ properties.num_nodes = 6
    /\ properties.directionality = "DIRECTED"
    /\ graph.nodes = 0 .. 3

\* C19: the complete model, undirected, has an edge for every unordered
\* pair of distinct nodes and no other: N (N - 1) / 2 edges.
C19_CompleteEdges ==
    (/\ GraphBuilt
     /\ properties.graph_type = "COMPLETE"
     /\ properties.directionality = "UNDIRECTED")
    => /\ ~graph.directed
       /\ \A u, v \in graph.nodes :
            u < v => (<<u, v>> \in graph.edges /\ <<v, u>> \notin graph.edges)
       /\ \A e \in graph.edges : e[1] \in graph.nodes /\ e[2] \in graph.nodes /\ e[1] # e[2]
       /\ 2 * Cardinality(graph.edges) = properties.num_nodes * (properties.num_nodes - 1)

C19_Witness ==
    /\ pc = "ready"
    /\ properties.graph_type = "COMPLETE"
    /\ properties.directionality = "UNDIRECTED"
    /\ properties.num_nodes = MaxNodes
    /\ Cardinality(graph.edges) = (MaxNodes * (MaxNodes - 1)) \div 2

\* C20: the star model, undirected, has N nodes and N - 1 edges, each of
\* them between node 0 and another node.
C20_StarShape ==
    (/\ GraphBuilt
     /\ properties.graph_type = "STAR"
     /\ properties.directionality = "UNDIRECTED")
    => /\ ~graph.directed
       /\ Cardinality(graph.nodes) = properties.num_nodes
       /\ Cardinality(graph.edges) = properties.num_nodes - 1
       /\ \A e \in graph.edges : e[1] = 0 /\ e[2] \in graph.nodes \ {0}

C20_Witness ==
    /\ pc = "ready"
    /\ properties.graph_type = "STAR"
    /\ properties.directionality = "UNDIRECTED"
    /\ properties.num_nodes = MaxNodes
    /\ graph.edges = {<<0, v>> : v \in 1 .. (MaxNodes - 1)}


\* C21: whenever the community stage runs, every edge whose endpoints share
\* a label in the assignment the stage leaves has its weight doubled (set to
\* 2.0 when it had none) and every other edge keeps its weight, whether the
\* labels come from best_partition or from the round-robin fallback.
C21_ReinforcedWhateverLabels ==
    [][(pc = "community" /\ properties.community_structure)
       => \A e \in graph'.edges :
            IF communities'[e[1]] = communities'[e[2]]
            THEN /\ e \in DOMAIN graph'.weight
                 /\ graph'.weight[e] = IF e \in DOMAIN graph.weight
                                       THEN 2 * graph.weight[e] ELSE 20
            ELSE (e \in DOMAIN graph'.weight) = (e \in DOMAIN graph.weight)
                 /\ (e \in DOMAIN graph.weight => graph'.weight[e] = graph.weight[e])]_vars


\* C22: when a call that weighted its edges (and ran no community stage)
\* completes, the weight statistics are those of the final graph: the total
\* is the sum of the weights of all its edges, the minimum and the maximum
\* are the least and the largest of them.
C22_StatisticsOfFinalGraph ==
    (/\ pc = "ready"
     /\ properties.is_weighted
     /\ ~properties.community_structure
     /\ IsWeighted(graph))
    => /\ graph_info.has_weight_statistics
       /\ graph_info.total_weight = SumOver(graph.weight, graph.edges)
       /\ graph_info.min_weight = SetMin({graph.weight[e] : e \in graph.edges})
       /\ graph_info.max_weight = SetMax({graph.weight[e] : e \in graph.edges})


\* The edges of nx.watts_strogatz_graph(n, k, p): the complete graph when
\* k = n, else k div 2 per node, which rewiring neither adds to nor removes from.
LatticeEdgeCount(n, k) == IF k = n THEN (n * (n - 1)) \div 2 ELSE n * (k \div 2)

\* The small-world call has built its graph and the graph is still undirected.
SmallWorldBuilt ==
    /\ properties.graph_type = "WATTS_STROGATZ"
    /\ \/ pc \in {"weights", "community", "direction"}
       \/ Generated /\ properties.directionality = "UNDIRECTED"

\* C23: the small-world graph is the one of ring-lattice degree
\* k = max(2, round(density * N)).
C23_RoundedLatticeDegree ==
    SmallWorldBuilt
    => Cardinality(graph.edges) =
         LatticeEdgeCount(properties.num_nodes,
                          Max(2, Round(properties.density * properties.num_nodes)))

\* C23 as amended: the small-world graph is the one of ring-lattice degree
\* k = max(2, floor(density * N)); the call never fails in its generation stage.
C23_TruncatedLatticeDegree ==
    /\ SmallWorldBuilt
       => Cardinality(graph.edges) =
            LatticeEdgeCount(properties.num_nodes,
                             Max(2, (properties.density * properties.num_nodes) \div 100))
    /\ (properties.graph_type = "WATTS_STROGATZ" /\ pc = "failed") => Len(stages) > 1

\* N = 5 and density 0.7: int(3.5) = 3, one lattice neighbour on each side.
C23_Witness ==
    /\ pc = "ready"
    /\ properties.graph_type = "WATTS_STROGATZ"
    /\ properties.directionality = "UNDIRECTED"
    /\ properties.num_nodes = 5
    /\ properties.density = 70
    /\ Cardinality(graph.edges) = 5


\* The least of the two scale factors, as a fraction <<num, den>>: extent of
\* the area over extent of the raw layout, or 1 for an axis of extent zero.
LeastFactor(raw, w, h) ==
    LET xs == {raw[v][1] : v \in DOMAIN raw}
        ys == {raw[v][2] : v \in DOMAIN raw}
        fx == IF SetMax(xs) > SetMin(xs) THEN <<w, SetMax(xs) - SetMin(xs)>> ELSE <<1, 1>>
        fy == IF SetMax(ys) > SetMin(ys) THEN <<h, SetMax(ys) - SetMin(ys)>> ELSE <<1, 1>>
    IN  IF fx[1] * fy[2] <= fy[1] * fx[2] THEN fx ELSE fy

\* out is raw under the one map that scales both axes by 0.9 times the least
\* factor for an area of w by h and takes the centre of raw's bounding box
\* to (cx, cy), each coordinate rounded down to a whole pixel.
ScaledAboutCentre(raw, out, w, h, cx, cy) ==
    /\ DOMAIN out = DOMAIN raw
    /\ \A v \in DOMAIN raw : \A axis \in {1, 2} :
         LET cs == {raw[u][axis] : u \in DOMAIN raw}
             f == LeastFactor(raw, w, h)
             c == IF axis = 1 THEN cx ELSE cy
             \* 0.9 * f * (raw - centre) as the fraction a / b
             a == 9 * f[1] * (2 * raw[v][axis] - (SetMin(cs) + SetMax(cs)))
             b == 20 * f[2]
         IN  b * (out[v][axis] - c) <= a /\ a < b * (out[v][axis] - c + 1)

\* C24: the normalized positions are the raw ones scaled by
\* 0.9 * min(width / range_x, height / range_y), a zero range counting as
\* factor 1, about the centre of the bounding box, which goes to the centre
\* (width / 2, height / 2) of the viewport [0, width] x [0, height].
C24_ScaledIntoViewport ==
    pc = "normalized"
    => ScaledAboutCentre(pre.pos, pos, Width, Height, Width \div 2, Height \div 2)

\* C24 as amended: the scale is 0.9 * min((width - 370) / range_x,
\* (height - 40) / range_y), a zero range counting as factor 1, and the
\* centre of the bounding box goes to the centre of the drawing area, the
\* point (20 + (width - 370) / 2, 20 + (height - 40) / 2).
C24_ScaledIntoDrawingArea ==
    pc = "normalized"
    => ScaledAboutCentre(pre.pos, pos, Width - 370, Height - 40,
                         20 + (Width - 370) \div 2, 20 + (Height - 40) \div 2)

\* A raw layout wider than the factor-1 case and taller than the drawing
\* area: both factors are computed and the smaller one, below 1, is used.
C24_Witness ==
    /\ pc = "normalized"
    /\ \E u, v \in DOMAIN pre.pos :
         /\ pre.pos[u][1] - pre.pos[v][1] = 20
         /\ pre.pos[u][2] - pre.pos[v][2] = 2000
         /\ pos[u][2] - pos[v][2] = 684
         /\ pos[u][1] - pos[v][1] \in 6 .. 7


\* C25: once the direction stage of a call has run, and so after every
\* completed call, the graph is directed exactly when the directedness flag
\* is set, whichever of the thirteen models built it; a graph converted to
\* directed has both directions of every edge.
C25_DirectedIffFlag ==
    pc \in {"layout", "analyze", "ready"}
    => /\ graph.directed = (properties.directionality = "DIRECTED")
       /\ (graph.directed /\ properties.graph_type \notin {"ERDOS_RENYI", "SCALE_FREE"})
          => \A e \in graph.edges : <<e[2], e[1]>> \in graph.edges

C25_Witness ==
    /\ pc = "ready"
    /\ properties.graph_type = "RANDOM_TREE"
    /\ properties.directionality = "DIRECTED"
    /\ graph.directed
    /\ Cardinality(graph.edges) = 2 * (properties.num_nodes - 1)


\* C26: after an odd number of left clicks on the "Weighted Graph" checkbox
\* the generate call that follows runs with weighting enabled, and after an
\* odd number of clicks on the "Community Structure" checkbox with
\* community structure enabled (both boxes start unchecked).
C26_OddClicksEnable ==
    /\ (pc = "weights" /\ clicks["is_weighted"] % 2 = 1) => properties.is_weighted
    /\ (pc = "community" /\ clicks["community_structure"] % 2 = 1)
       => properties.community_structure

\* C27: an event that a slider, a dropdown or a checkbox handles starts a
\* generate call while it is handled.
C27_RegeneratedOnEvent ==
    [][events' = events + 1 => (pc' = "generate" /\ calls' = calls + 1)]_vars


\* C28: after every completed generate call, whatever the model and the
\* layout algorithm, there are positions and the nodes that have one are
\* exactly the nodes of the graph: both ends of every edge have a position.
C28_PositionsCoverNodes ==
    pc = "ready"
    => /\ pos # None
       /\ DOMAIN pos = graph.nodes
       /\ \A e \in graph.edges : e[1] \in DOMAIN pos /\ e[2] \in DOMAIN pos

\* A completed call whose graph has other nodes than the graph before it.
C28_Witness ==
    /\ pc = "ready"
    /\ calls > 1
    /\ pre.pos # None
    /\ DOMAIN pre.pos = pre.graph.nodes
    /\ graph.nodes # pre.graph.nodes
    /\ properties.layout_type = "SPECTRAL"
    /\ DOMAIN pos = graph.nodes


\* The event handled in the step is a press of the left mouse button.
LeftDown == event' # None /\ event'[1].type = "MOUSEBUTTONDOWN" /\ event'[1].button = 1

\* The event handled in the step is a release of the left mouse button.
LeftUp == event' # None /\ event'[1].type = "MOUSEBUTTONUP" /\ event'[1].button = 1

\* The event of the step is at a point of option row i: the rows are 30
\* pixels high, as wide as the dropdown, and follow its box downwards.
OnRow(i) ==
    /\ 0 <= event'[1].pos[1] /\ event'[1].pos[1] < ElementWidth
    /\ 30 * (i + 1) <= event'[1].pos[2] /\ event'[1].pos[2] < 30 * (i + 2)

\* C29: the selected index of a dropdown is always an index of its options;
\* a left click while it is expanded collapses it wherever the click lands;
\* the selected index changes only on a left click, while expanded, on an
\* option row, and becomes the index of that row.
C29_DropdownSelects ==
    /\ [](dropdown.selected_index \in 0 .. (Len(DropdownOptions) - 1))
    /\ [][(dropdown.expanded /\ LeftDown) => ~dropdown'.expanded]_vars
    /\ [][dropdown'.selected_index # dropdown.selected_index
          => /\ dropdown.expanded
             /\ LeftDown
             /\ OnRow(dropdown'.selected_index)]_vars

\* The last event was a left click on the third row, which is now selected.
C29_Witness ==
    /\ event # None
    /\ event[1].type = "MOUSEBUTTONDOWN" /\ event[1].button = 1
    /\ event[1].pos[2] \in 90 .. 119
    /\ dropdown.selected_index = 2
    /\ SelectedOption(dropdown) = "MIXED"
    /\ ~dropdown.expanded

\* C30: the value of a slider stays in [min_val, max_val] and its handle on
\* the track; a mouse move changes the value only while dragging is set;
\* dragging becomes set only by a left press on the slider and is unset by
\* every left release.
C30_SliderInRange ==
    /\ [](/\ SliderMin * ElementWidth <= slider.value
          /\ slider.value <= SliderMax * ElementWidth
          /\ 0 <= slider.handle_pos
          /\ slider.handle_pos <= ElementWidth * (SliderMax - SliderMin))
    /\ [][(slider'.value # slider.value /\ event'[1].type = "MOUSEMOTION")
          => slider.dragging]_vars
    /\ [][(slider'.dragging /\ ~slider.dragging)
          => /\ LeftDown
             /\ 0 <= event'[1].pos[1] /\ event'[1].pos[1] < ElementWidth
             /\ 60 <= event'[1].pos[2] /\ event'[1].pos[2] < 80]_vars
    /\ [][LeftUp => ~slider'.dragging]_vars

\* The handle has been dragged past the right end of the track.
C30_Witness ==
    /\ event # None
    /\ event[1].type = "MOUSEMOTION"
    /\ event[1].pos[1] = ElementWidth
    /\ slider.dragging
    /\ slider.value = SliderMax * ElementWidth
    /\ slider.handle_pos = ElementWidth * (SliderMax - SliderMin)


====
